---------------------------- MODULE Spec2Model ----------------------------
(***************************************************************************)
(* A model of the poker evaluation core of poker-grpc:                     *)
(*   backend/hand_rank.py  parse_card, hand_rank, is_straight, best_hand,  *)
(*                         compare_hands, calculate_probability            *)
(*   backend/server.py     PokerService.EvaluateHand, CompareHands,        *)
(*                         CalculateProbability                            *)
(* A card token is a sequence of one-character strings, <<"H", "A">>.      *)
(* A Python exception is a value whose exc field names the exception.      *)
(***************************************************************************)
EXTENDS Integers, Sequences, FiniteSets, TLC

VARIABLES
    setOrder,          \* iteration order of the interpreter's set type
    card_str,          \* parse_card: the argument
    parsed,            \* parse_card: what the call returned or raised
    hand,              \* hand_rank: the argument, a list of card tokens
    rank,              \* hand_rank: what the call returned or raised
    call,              \* the evaluation operation that was invoked, "none" before
    cards,             \* best_hand: the argument, a list of card tokens
    result,            \* best_hand: what the call returned or raised
    request,           \* the request of EvaluateHand or CompareHands, the arguments of compare_hands
    response,          \* the response of EvaluateHand or CompareHands with its status code
    compared,          \* compare_hands: what the call returned or raised
    pc,                \* calculate_probability: "idle", in the trial "loop", or "done"
    my_cards,          \* calculate_probability: argument
    community_cards,   \* calculate_probability: argument
    num_players,       \* calculate_probability: argument
    num_simulations,   \* calculate_probability: argument, after the defaults
    deck,              \* calculate_probability: the remaining deck, shuffled in place
    wins,              \* calculate_probability: the win counter
    ties,              \* calculate_probability: the tie counter
    trial,             \* calculate_probability: iterations of the trial loop completed
    opponents_cards,   \* calculate_probability: the opponents' hands of the latest trial
    sim_community,     \* calculate_probability: the board of the latest trial
    prob               \* calculate_probability: what the call returned or raised

vars ==
    <<setOrder, card_str, parsed, hand, rank, call, cards, result, request, response,
      compared, pc, my_cards, community_cards, num_players, num_simulations, deck, wins,
      ties, trial, opponents_cards, sim_community, prob>>

parseVars == <<card_str, parsed>>
rankVars == <<hand, rank>>
evalVars == <<call, cards, result, request, response, compared>>
probVars ==
    <<pc, my_cards, community_cards, num_players, num_simulations, deck, wins, ties,
      trial, opponents_cards, sim_community, prob>>

-----------------------------------------------------------------------------
(* Bounds of the model.                                                    *)

\* longest token handed to parse_card
MaxTokenLen == 3

\* most cards handed to best_hand
MaxCards == 7

\* most hole cards in a request
MaxHoleCards == 2

\* most iterations of the trial loop the model follows in one call
MaxTrialsRun == 3

\* the shuffles the model lets random.shuffle choose from in one trial
MaxShuffles == 2

-----------------------------------------------------------------------------
(* Python values.                                                          *)

\* a call that has not been made yet
Pending == [exc |-> "pending"]

Raised(e) == [exc |-> e]

\* list(set) and set difference iterate in an order the language leaves to the
\* interpreter: CPython walks its hash table, PyPy keeps insertion order.
SetOrders == {"hash", "insertion"}

\* str.upper() on the characters the model uses
Upper(c) ==
    CASE c = "h" -> "H"
      [] c = "s" -> "S"
      [] c = "c" -> "C"
      [] c = "d" -> "D"
      [] c = "t" -> "T"
      [] c = "j" -> "J"
      [] c = "q" -> "Q"
      [] c = "k" -> "K"
      [] c = "a" -> "A"
      [] OTHER -> c

\* x in s, for a one-character x and a string s
InStr(x, s) == \E i \in 1..Len(s) : s[i] = x

\* s.index(x): the 0-based position of the first x
StrIndex(x, s) == (CHOOSE i \in 1..Len(s) : s[i] = x /\ \A j \in 1..(i - 1) : s[j] # x) - 1

\* ranks = '..23456789TJQKA'
ranks_str == <<".", ".", "2", "3", "4", "5", "6", "7", "8", "9", "T", "J", "Q", "K", "A">>

\* suits = 'HSCD'
suits_str == <<"H", "S", "C", "D">>

get_rank_value(rank_char) ==
    IF InStr(rank_char, ranks_str) THEN StrIndex(rank_char, ranks_str) ELSE 0

Card(r, s) == [exc |-> "none", rank |-> r, suit |-> s]

parse_card(s) ==
    IF Len(s) # 2 THEN Raised("ValueError")
    ELSE LET first == Upper(s[1])
             second == Upper(s[2])
         IN  IF InStr(first, suits_str) /\ InStr(second, ranks_str)
             THEN Card(get_rank_value(second), first)
             ELSE IF InStr(first, ranks_str) /\ InStr(second, suits_str)
             THEN Card(get_rank_value(first), second)
             ELSE Raised("ValueError")

-----------------------------------------------------------------------------
(* Lists, tuples and sets of ranks.                                        *)

RECURSIVE InsertDesc(_, _)
InsertDesc(x, s) ==
    IF s = <<>> THEN <<x>>
    ELSE IF x >= Head(s) THEN <<x>> \o s
    ELSE <<Head(s)>> \o InsertDesc(x, Tail(s))

\* sorted(s, reverse=True)
RECURSIVE SortedDesc(_)
SortedDesc(s) == IF s = <<>> THEN <<>> ELSE InsertDesc(Head(s), SortedDesc(Tail(s)))

\* set(s), as a set of values
Elems(s) == {s[i] : i \in 1..Len(s)}

\* s.count(x)
Count(s, x) == Cardinality({i \in 1..Len(s) : s[i] = x})

\* [x for x in s if keep(x)]

\* the keys of {r: ... for r in s}: a dict keeps first-insertion order
RECURSIVE DictKeys(_)
DictKeys(s) ==
    IF s = <<>> THEN <<>>
    ELSE <<Head(s)>> \o DictKeys(SelectSeq(Tail(s), LAMBDA x : x # Head(s)))

\* CPython's set of small ints: a table of 8 slots (a set of up to 4 keys never
\* resizes), hash(n) = n, slot n & 7, and on a collision slot (5 i + 1) & 7.
\* An empty slot holds -1.
EmptyTable == [i \in 0..7 |-> -1]

RECURSIVE Probe(_, _, _)
Probe(tab, k, i) ==
    IF tab[i] = -1 \/ tab[i] = k THEN i
    ELSE Probe(tab, k, (i * 5 + 1) % 8)

SetAdd(tab, k) == [tab EXCEPT ![Probe(tab, k, k % 8)] = k]

RECURSIVE SetFromList(_, _)
SetFromList(tab, s) ==
    IF s = <<>> THEN tab ELSE SetFromList(SetAdd(tab, Head(s)), Tail(s))

\* the keys of a table in iteration order (slot order)
RECURSIVE SetIterFrom(_, _)
SetIterFrom(tab, i) ==
    IF i >= 8 THEN <<>>
    ELSE (IF tab[i] = -1 THEN <<>> ELSE <<tab[i]>>) \o SetIterFrom(tab, i + 1)

\* list(set(s) - set(t))
SetDiffList(s, t) ==
    IF setOrder = "insertion"
    THEN SelectSeq(DictKeys(s), LAMBDA x : x \notin Elems(t))
    ELSE LET kept == SelectSeq(SetIterFrom(SetFromList(EmptyTable, s), 0),
                            LAMBDA x : x \notin Elems(t))
         IN  SetIterFrom(SetFromList(EmptyTable, kept), 0)

\* Python's order on lists of ints: a > b
RECURSIVE ListGT(_, _)
ListGT(a, b) ==
    IF a = <<>> THEN FALSE
    ELSE IF b = <<>> THEN TRUE
    ELSE IF Head(a) # Head(b) THEN Head(a) > Head(b)
    ELSE ListGT(Tail(a), Tail(b))

\* a hand score, the tuple (category, tiebreak)
Score(c, t) == [exc |-> "none", cat |-> c, tb |-> t]

\* Python's order on (int, list) tuples: a > b
TupleGT(a, b) == a.cat > b.cat \/ (a.cat = b.cat /\ ListGT(a.tb, b.tb))

-----------------------------------------------------------------------------
(* hand_rank.py: the Hand Classifier.                                      *)

SeqMax(s) == CHOOSE x \in Elems(s) : \A y \in Elems(s) : y <= x
SeqMin(s) == CHOOSE x \in Elems(s) : \A y \in Elems(s) : y >= x

is_straight(ranks) ==
    IF Cardinality(Elems(ranks)) # 5 THEN FALSE
    ELSE (SeqMax(ranks) - SeqMin(ranks) = 4) \/ (ranks = <<14, 5, 4, 3, 2>>)

\* hand_rank once every card has parsed: ranks sorted descending, suits as dealt
classify(ranks, suits) ==
    LET counts == DictKeys(ranks)
        four == SelectSeq(counts, LAMBDA r : Count(ranks, r) = 4)
        three == SelectSeq(counts, LAMBDA r : Count(ranks, r) = 3)
        two == SelectSeq(counts, LAMBDA r : Count(ranks, r) = 2)
    IN  IF Cardinality(Elems(suits)) = 1
        THEN IF ranks = <<14, 13, 12, 11, 10>> THEN Score(9, ranks)
             ELSE IF is_straight(ranks) THEN Score(8, ranks)
             ELSE Score(5, ranks)
        ELSE IF Cardinality(Elems(ranks)) = 2 /\ four # <<>>
        THEN Score(7, four \o SetDiffList(ranks, four))
        ELSE IF Cardinality(Elems(ranks)) = 2 /\ three # <<>> /\ two # <<>>
        THEN Score(6, three \o two)
        ELSE IF is_straight(ranks) THEN Score(4, ranks)
        ELSE IF three # <<>> THEN Score(3, three \o SetDiffList(ranks, three))
        ELSE IF Len(two) = 2 THEN Score(2, SortedDesc(two) \o SetDiffList(ranks, two))
        ELSE IF Len(two) = 1 THEN Score(1, two \o SetDiffList(ranks, two))
        ELSE Score(0, ranks)

hand_rank(h) ==
    LET cs == [i \in 1..Len(h) |-> parse_card(h[i])]
    IN  IF \E i \in 1..Len(h) : cs[i].exc # "none" THEN Raised("ValueError")
        ELSE classify(SortedDesc([i \in 1..Len(h) |-> cs[i].rank]),
                      [i \in 1..Len(h) |-> cs[i].suit])

-----------------------------------------------------------------------------
(* hand_rank.py: the Best-Hand Selector and the Hand Comparator.           *)

\* itertools.combinations(s, k), in the order it yields them
RECURSIVE Combinations(_, _)
Combinations(s, k) ==
    IF k = 0 THEN << <<>> >>
    ELSE IF Len(s) < k THEN <<>>
    ELSE LET rest == Combinations(Tail(s), k - 1)
         IN  [i \in 1..Len(rest) |-> <<Head(s)>> \o rest[i]] \o Combinations(Tail(s), k)

\* None, where a list of cards is expected
None == <<"None">>

\* a best_hand that compares categories only
IsBetterByCategory(r, current_best_rank) == r.cat > current_best_rank.cat

\* if rank > current_best_rank
IsBetter(r, current_best_rank) == TupleGT(r, current_best_rank)

\* the loop of best_hand over the combinations still to come;
\* acc holds current_best and current_best_rank
RECURSIVE best_loop(_, _)
best_loop(combos, acc) ==
    IF combos = <<>> THEN acc
    ELSE LET r == hand_rank(Head(combos))
         IN  IF r.exc # "none" THEN Raised(r.exc)
             ELSE IF IsBetter(r, acc.current_best_rank)
             THEN best_loop(Tail(combos),
                            [exc |-> "none", current_best |-> Head(combos), current_best_rank |-> r])
             ELSE best_loop(Tail(combos), acc)

rank_names ==
    <<"High Card", "Pair", "Two Pair", "Three of a Kind", "Straight",
      "Flush", "Full House", "Four of a Kind", "Straight Flush", "Royal Flush">>

best_hand(cs) ==
    LET acc == best_loop(Combinations(cs, 5),
                         [exc |-> "none", current_best |-> None,
                          current_best_rank |-> Score(-1, <<>>)])
    IN  IF acc.exc # "none" THEN Raised(acc.exc)
        ELSE IF acc.current_best = None THEN Raised("TypeError")
        ELSE [exc |-> "none",
              best_hand |-> acc.current_best,
              rank_value |-> acc.current_best_rank.cat,
              rank_name |-> rank_names[acc.current_best_rank.cat + 1],
              rank_tuple |-> acc.current_best_rank]

\* rank = (-1, []); for combo in combinations(cs, 5): r = hand_rank(combo);
\* if r > rank: rank = r
RECURSIVE max_rank_loop(_, _)
max_rank_loop(combos, best) ==
    IF combos = <<>> THEN best
    ELSE LET r == hand_rank(Head(combos))
         IN  IF r.exc # "none" THEN Raised(r.exc)
             ELSE max_rank_loop(Tail(combos), IF TupleGT(r, best) THEN r ELSE best)

max_rank(cs) == max_rank_loop(Combinations(cs, 5), Score(-1, <<>>))

Compared(w, name) == [exc |-> "none", winner |-> w, name |-> name]

compare_hands(hand1_cards, hand2_cards, community) ==
    LET best1 == best_hand(hand1_cards \o community)
        best2 == best_hand(hand2_cards \o community)
        rank1 == max_rank(hand1_cards \o community)
        rank2 == max_rank(hand2_cards \o community)
    IN  IF best1.exc # "none" THEN Raised(best1.exc)
        ELSE IF best2.exc # "none" THEN Raised(best2.exc)
        ELSE IF best1.rank_value > best2.rank_value THEN Compared(1, best1.rank_name)
        ELSE IF best2.rank_value > best1.rank_value THEN Compared(2, best2.rank_name)
        ELSE IF rank1.exc # "none" THEN Raised(rank1.exc)
        ELSE IF rank2.exc # "none" THEN Raised(rank2.exc)
        ELSE IF TupleGT(rank1, rank2) THEN Compared(1, best1.rank_name)
        ELSE IF TupleGT(rank2, rank1) THEN Compared(2, best2.rank_name)
        ELSE Compared(0, best1.rank_name)

-----------------------------------------------------------------------------
(* server.py: PokerService.EvaluateHand and PokerService.CompareHands.     *)

\* poker_pb2.HandResponse(...) with the status code the handler leaves
HandResponse(code, v, name, best) ==
    [code |-> code, rank_value |-> v, rank_name |-> name, best_hand |-> best]

\* poker_pb2.CompareResponse(...) with the status code the handler leaves
CompareResponse(code, w, name) ==
    [code |-> code, winner |-> w, winning_hand_name |-> name]

EvaluateHandResponse(req) ==
    LET all_cards == req.hole_cards \o req.community_cards
        res == best_hand(all_cards)
    IN  IF Len(all_cards) < 5 THEN HandResponse("INVALID_ARGUMENT", 0, "", <<>>)
        ELSE IF res.exc # "none" THEN HandResponse("INTERNAL", 0, "", <<>>)
        ELSE HandResponse("OK", res.rank_value, res.rank_name, res.best_hand)

\* a CompareHands that compares rank_value where it should compare rank_tuple
winner_by_rank_value(best1, best2) ==
    IF best1.rank_value > best2.rank_value THEN CompareResponse("OK", 1, best1.rank_name)
    ELSE IF best2.rank_value > best1.rank_value THEN CompareResponse("OK", 2, best2.rank_name)
    ELSE CompareResponse("OK", 0, best1.rank_name)

\* winner, winning_hand_name from best1 and best2
winner_of(best1, best2) ==
    IF TupleGT(best1.rank_tuple, best2.rank_tuple) THEN CompareResponse("OK", 1, best1.rank_name)
    ELSE IF TupleGT(best2.rank_tuple, best1.rank_tuple) THEN CompareResponse("OK", 2, best2.rank_name)
    ELSE CompareResponse("OK", 0, best1.rank_name)

CompareHandsResponse(req) ==
    LET best1 == best_hand(req.hand1.hole_cards \o req.hand1.community_cards)
        best2 == best_hand(req.hand2.hole_cards \o req.hand2.community_cards)
    IN  IF best1.exc # "none" \/ best2.exc # "none" THEN CompareResponse("INTERNAL", 0, "")
        ELSE winner_of(best1, best2)

-----------------------------------------------------------------------------
(* hand_rank.py: the Probability Estimator.                                *)

\* for s in 'HSCD': for r in '23456789TJQKA': card = s + r
FullDeck ==
    [i \in 1..52 |->
        <<suits_str[((i - 1) \div 13) + 1], ranks_str[((i - 1) % 13) + 3]>>]

\* the deck calculate_probability builds: the cards of the full deck whose
\* token is neither in my_cards nor in community_cards
build_deck(mine, community) ==
    SelectSeq(FullDeck, LAMBDA card : card \notin Elems(mine) /\ card \notin Elems(community))

\* one outcome of random.shuffle(d): the card at 0-based position i comes from
\* position (11 i + k) mod len(d). The deck holds 45 to 52 cards, none a
\* multiple of 11, so this is a permutation.
shuffle(d, k) == [i \in 1..Len(d) |-> d[(((i - 1) * 11 + k) % Len(d)) + 1]]

\* s[a:b] for a >= 0
PySlice(s, a, b) ==
    LET stop == IF b < 0 THEN (IF b + Len(s) < 0 THEN 0 ELSE b + Len(s))
                ELSE IF b > Len(s) THEN Len(s) ELSE b
    IN  IF a >= stop THEN <<>> ELSE SubSeq(s, a + 1, stop)

\* the loop that deals 2 cards to each opponent, from current_deck_idx on;
\* deck[i] past the end raises IndexError
RECURSIVE deal_opponents(_, _, _, _)
deal_opponents(d, left, current_deck_idx, dealt) ==
    IF left <= 0 THEN [exc |-> "none", opponents_cards |-> dealt]
    ELSE IF current_deck_idx + 1 >= Len(d) THEN Raised("IndexError")
    ELSE deal_opponents(d, left - 1, current_deck_idx + 2,
                        Append(dealt, <<d[current_deck_idx + 1], d[current_deck_idx + 2]>>))

\* best_opp_rank: the greatest of the opponents' best ranks
RECURSIVE best_opp_loop(_, _, _)
best_opp_loop(opps, board, best_opp_rank) ==
    IF opps = <<>> THEN best_opp_rank
    ELSE LET opp_r == max_rank(Head(opps) \o board)
         IN  IF opp_r.exc # "none" THEN Raised(opp_r.exc)
             ELSE best_opp_loop(Tail(opps), board,
                                IF TupleGT(opp_r, best_opp_rank) THEN opp_r ELSE best_opp_rank)

\* one iteration of the trial loop on the shuffled deck d: the exception it
\* raises or the cards it deals and what it adds to wins and ties
run_trial(d, mine, community, players) ==
    LET opps == deal_opponents(d, players - 1, 0, <<>>)
        current_deck_idx == 2 * Len(opps.opponents_cards)
        needed_community == 5 - Len(community)
        board == community \o PySlice(d, current_deck_idx, current_deck_idx + needed_community)
        my_rank == max_rank(mine \o board)
        best_opp_rank == best_opp_loop(opps.opponents_cards, board, Score(-1, <<>>))
    IN  IF opps.exc # "none" THEN Raised(opps.exc)
        ELSE IF my_rank.exc # "none" THEN Raised(my_rank.exc)
        ELSE IF best_opp_rank.exc # "none" THEN Raised(best_opp_rank.exc)
        ELSE [exc |-> "none",
              opponents_cards |-> opps.opponents_cards,
              sim_community |-> board,
              win |-> IF TupleGT(my_rank, best_opp_rank) THEN 1 ELSE 0,
              tie |-> IF ~TupleGT(my_rank, best_opp_rank) /\ my_rank = best_opp_rank
                      THEN 1 ELSE 0]

\* a / b of two ints, kept as the pair
Div(a, b) == [num |-> a, den |-> b]

\* the dict calculate_probability returns; n / 0 raises ZeroDivisionError
probability_result(w, t, n) ==
    IF n = 0 THEN Raised("ZeroDivisionError")
    ELSE [exc |-> "none", win |-> Div(w, n), tie |-> Div(t, n), lose |-> Div(n - w - t, n)]

\* def calculate_probability(..., num_simulations=1000)
DefaultSimulations == 1000

\* num_simulations as calculate_probability sees it: given is <<n>>, or <<>>
\* when the caller passes none
default_simulations(given) == IF given = <<>> THEN DefaultSimulations ELSE given[1]

-----------------------------------------------------------------------------
(* server.py: PokerService.CalculateProbability.                           *)

\* request.num_simulations or 1000
ServiceDefaultSimulations == 1000

service_simulations(n) == IF n = 0 THEN ServiceDefaultSimulations ELSE n

\* poker_pb2.ProbabilityResponse(...) with the status code the handler leaves
ProbabilityResponse(res) ==
    IF res.exc # "none"
    THEN [code |-> "INTERNAL", win_probability |-> Div(0, 1), tie_probability |-> Div(0, 1),
          lose_probability |-> Div(0, 1)]
    ELSE [code |-> "OK", win_probability |-> res.win, tie_probability |-> res.tie,
          lose_probability |-> res.lose]

-----------------------------------------------------------------------------
(* Specification of parse_card: a token is drawn and parsed.               *)

\* no evaluation operation has been invoked
EvalIdle ==
    /\ call = "none"
    /\ cards = <<>>
    /\ result = Pending
    /\ request = <<>>
    /\ response = Pending
    /\ compared = Pending

\* calculate_probability has not been called
ProbIdle ==
    /\ pc = "idle"
    /\ my_cards = <<>>
    /\ community_cards = <<>>
    /\ num_players = 0
    /\ num_simulations = 0
    /\ deck = <<>>
    /\ wins = 0
    /\ ties = 0
    /\ trial = 0
    /\ opponents_cards = <<>>
    /\ sim_community = <<>>
    /\ prob = Pending

ParseChars == {"H", "s", "A", "7", "t", ".", "X"}

Tokens == UNION {[1..n -> ParseChars] : n \in 0..MaxTokenLen}

InitParse ==
    /\ setOrder \in SetOrders
    /\ card_str \in Tokens
    /\ parsed = Pending
    /\ hand = <<>>
    /\ rank = Pending
    /\ EvalIdle
    /\ ProbIdle

ParseCard ==
    /\ parsed = Pending
    /\ parsed' = parse_card(card_str)
    /\ UNCHANGED <<setOrder, card_str, rankVars, evalVars, probVars>>

NextParse == ParseCard

SpecParse == InitParse /\ [][NextParse]_vars

-----------------------------------------------------------------------------
(* Specification of hand_rank: five cards are dealt and classified.        *)

RankDeckRanks == <<"2", "3", "4", "5", "6", "A">>
RankDeckSuits == <<"H", "S", "C">>

\* the cards a hand is dealt from, in a fixed order
RankDeck ==
    [i \in 1..(Len(RankDeckRanks) * Len(RankDeckSuits)) |->
        <<RankDeckSuits[((i - 1) % Len(RankDeckSuits)) + 1],
          RankDeckRanks[((i - 1) \div Len(RankDeckSuits)) + 1]>>]

DeckIndex(d, c) == CHOOSE i \in 1..Len(d) : d[i] = c

InitRank ==
    /\ setOrder \in SetOrders
    /\ card_str = <<>>
    /\ parsed = Pending
    /\ hand = <<>>
    /\ rank = Pending
    /\ EvalIdle
    /\ ProbIdle

\* the caller puts the next card of the hand
DealCard ==
    /\ Len(hand) < 5
    /\ \E i \in 1..Len(RankDeck) :
          /\ (IF hand = <<>> THEN TRUE ELSE i > DeckIndex(RankDeck, hand[Len(hand)]))
          /\ hand' = Append(hand, RankDeck[i])
    /\ UNCHANGED <<setOrder, parseVars, rank, evalVars, probVars>>

HandRank ==
    /\ Len(hand) = 5
    /\ rank = Pending
    /\ rank' = hand_rank(hand)
    /\ UNCHANGED <<setOrder, parseVars, hand, evalVars, probVars>>

NextRank == DealCard \/ HandRank

SpecRank == InitRank /\ [][NextRank]_vars

-----------------------------------------------------------------------------
(* Specification of the evaluation operations: one call of best_hand,      *)
(* EvaluateHand, CompareHands or compare_hands, its arguments drawn from   *)
(* the cards below.                                                        *)

\* the cards best_hand is handed, in a fixed order
EvalDeck ==
    << <<"C", "A">>, <<"D", "A">>, <<"C", "K">>, <<"D", "9">>, <<"S", "K">>,
       <<"S", "9">>, <<"H", "4">>, <<"H", "3">>, <<"C", "2">>, <<"H", "5">> >>

\* the cards hole cards are taken from, and the board as it is dealt
HoleDeck == << <<"C", "A">>, <<"D", "A">>, <<"C", "K">> >>
BoardDeck == << <<"S", "K">>, <<"S", "9">>, <<"H", "4">>, <<"H", "3">>, <<"C", "2">> >>

\* the cards of the list d at the positions in idx, in the order of d
RECURSIVE Pick(_, _, _)
Pick(d, idx, i) ==
    IF i > Len(d) THEN <<>>
    ELSE (IF i \in idx THEN <<d[i]>> ELSE <<>>) \o Pick(d, idx, i + 1)

\* every list of up to n cards of d, in the order of d
Pools(d, n) ==
    {Pick(d, idx, 1) : idx \in {x \in SUBSET (1..Len(d)) : Cardinality(x) <= n}}

\* no board, the flop, the turn, the river
Boards == {SubSeq(BoardDeck, 1, n) : n \in {0, 3, 4, 5}}

InitEval ==
    /\ setOrder \in SetOrders
    /\ card_str = <<>>
    /\ parsed = Pending
    /\ hand = <<>>
    /\ rank = Pending
    /\ EvalIdle
    /\ ProbIdle

BestHand ==
    /\ call = "none"
    /\ \E cs \in Pools(EvalDeck, MaxCards) :
          /\ cards' = cs
          /\ result' = best_hand(cs)
    /\ call' = "best_hand"
    /\ UNCHANGED <<setOrder, parseVars, rankVars, request, response, compared, probVars>>

EvaluateHand ==
    /\ call = "none"
    /\ \E hole \in Pools(HoleDeck, MaxHoleCards), board \in Boards :
          LET req == [hole_cards |-> hole, community_cards |-> board]
          IN  /\ request' = req
              /\ response' = EvaluateHandResponse(req)
    /\ call' = "EvaluateHand"
    /\ UNCHANGED <<setOrder, parseVars, rankVars, cards, result, compared, probVars>>

CompareHands ==
    /\ call = "none"
    /\ \E hole1 \in Pools(HoleDeck, MaxHoleCards), board1 \in Boards,
          hole2 \in Pools(HoleDeck, MaxHoleCards), board2 \in Boards :
          LET req == [hand1 |-> [hole_cards |-> hole1, community_cards |-> board1],
                      hand2 |-> [hole_cards |-> hole2, community_cards |-> board2]]
          IN  /\ request' = req
              /\ response' = CompareHandsResponse(req)
    /\ call' = "CompareHands"
    /\ UNCHANGED <<setOrder, parseVars, rankVars, cards, result, compared, probVars>>

\* hand_rank.compare_hands, called with one community board for both hands
CallCompareHands ==
    /\ call = "none"
    /\ \E hole1 \in Pools(HoleDeck, MaxHoleCards), hole2 \in Pools(HoleDeck, MaxHoleCards),
          board \in Boards :
          /\ request' = [hand1 |-> [hole_cards |-> hole1, community_cards |-> board],
                         hand2 |-> [hole_cards |-> hole2, community_cards |-> board]]
          /\ compared' = compare_hands(hole1, hole2, board)
    /\ call' = "compare_hands"
    /\ UNCHANGED <<setOrder, parseVars, rankVars, cards, result, response, probVars>>

NextEval == BestHand \/ EvaluateHand \/ CompareHands \/ CallCompareHands

SpecEval == InitEval /\ [][NextEval]_vars

-----------------------------------------------------------------------------
(* Specification of the Probability Estimator: one call, through the       *)
(* service or direct, followed trial by trial.                             *)

\* the player's hole cards: suit-rank, rank-suit and lower-case tokens
ProbHoles ==
    { << <<"H", "A">>, <<"H", "K">> >>,
      << <<"A", "H">>, <<"K", "H">> >>,
      << <<"h", "a">>, <<"h", "k">> >> }

\* the known community cards: none, a flop, a full board
ProbBoardDeck == << <<"S", "A">>, <<"D", "7">>, <<"C", "2">>, <<"D", "K">>, <<"S", "9">> >>
ProbBoards == {SubSeq(ProbBoardDeck, 1, n) : n \in {0, 3, 5}}

\* 2 and 3 players; 24 and 27 players ask for more cards than the deck holds
PlayerCounts == {2, 3, 24, 27}

\* the trial counts a caller of calculate_probability gives
SimCounts == -1..MaxTrialsRun

\* the trial counts a request carries: 0 when the field is unset. The wire type
\* of the field is declared outside these sources, so only the counts every
\* integer wire type carries are drawn.
RequestSimCounts == 0..MaxTrialsRun

InitProb ==
    /\ setOrder \in SetOrders
    /\ card_str = <<>>
    /\ parsed = Pending
    /\ hand = <<>>
    /\ rank = Pending
    /\ EvalIdle
    /\ ProbIdle

\* the call of calculate_probability up to the trial loop
enter(mine, community, players, simulations) ==
    /\ pc' = "loop"
    /\ my_cards' = mine
    /\ community_cards' = community
    /\ num_players' = players
    /\ num_simulations' = simulations
    /\ deck' = build_deck(mine, community)
    /\ wins' = 0
    /\ ties' = 0
    /\ UNCHANGED <<trial, opponents_cards, sim_community, prob>>

\* PokerService.CalculateProbability receives a request
CalculateProbability ==
    /\ pc = "idle"
    /\ call = "none"
    /\ \E hole \in ProbHoles, board \in ProbBoards, players \in PlayerCounts,
          n \in RequestSimCounts :
          /\ request' = [hole_cards |-> hole, community_cards |-> board,
                         num_players |-> players, num_simulations |-> <<n>>]
          /\ enter(hole, board, players, service_simulations(n))
    /\ call' = "CalculateProbability"
    /\ UNCHANGED <<setOrder, parseVars, rankVars, cards, result, response, compared>>

\* hand_rank.calculate_probability is called, with or without a trial count
CallCalculateProbability ==
    /\ pc = "idle"
    /\ call = "none"
    /\ \E hole \in ProbHoles, board \in ProbBoards, players \in PlayerCounts,
          given \in {<<>>} \cup {<<n>> : n \in SimCounts} :
          /\ request' = [hole_cards |-> hole, community_cards |-> board,
                         num_players |-> players, num_simulations |-> given]
          /\ enter(hole, board, players, default_simulations(given))
    /\ call' = "calculate_probability"
    /\ UNCHANGED <<setOrder, parseVars, rankVars, cards, result, response, compared>>

\* one iteration of for _ in range(num_simulations)
Trial ==
    /\ pc = "loop"
    /\ trial < num_simulations
    /\ trial < MaxTrialsRun
    /\ \E k \in 1..MaxShuffles :
          \E t \in {run_trial(shuffle(deck, k), my_cards, community_cards, num_players)} :
              /\ deck' = shuffle(deck, k)
              /\ IF t.exc # "none"
                 THEN /\ pc' = "done"
                      /\ prob' = Raised(t.exc)
                      /\ response' = IF call = "CalculateProbability"
                                      THEN ProbabilityResponse(Raised(t.exc)) ELSE response
                      /\ UNCHANGED <<wins, ties, trial, opponents_cards, sim_community>>
                 ELSE /\ wins' = wins + t.win
                      /\ ties' = ties + t.tie
                      /\ trial' = trial + 1
                      /\ opponents_cards' = t.opponents_cards
                      /\ sim_community' = t.sim_community
                      /\ UNCHANGED <<pc, prob, response>>
    /\ UNCHANGED <<setOrder, parseVars, rankVars, call, cards, result, request, compared,
                   my_cards, community_cards, num_players, num_simulations>>

\* the loop is over: the fractions are returned
Return ==
    /\ pc = "loop"
    /\ trial >= num_simulations
    /\ pc' = "done"
    /\ prob' = probability_result(wins, ties, num_simulations)
    /\ response' = IF call = "CalculateProbability"
                    THEN ProbabilityResponse(probability_result(wins, ties, num_simulations))
                    ELSE response
    /\ UNCHANGED <<setOrder, parseVars, rankVars, call, cards, result, request, compared,
                   my_cards, community_cards, num_players, num_simulations, deck, wins,
                   ties, trial, opponents_cards, sim_community>>

NextProb == CalculateProbability \/ CallCalculateProbability \/ Trial \/ Return

SpecProb == InitProb /\ [][NextProb]_vars

-----------------------------------------------------------------------------
(* Claims about parse_card and hand_rank.                                  *)

RankChars == {"2", "3", "4", "5", "6", "7", "8", "9", "T", "J", "Q", "K", "A"}
SuitChars == {"H", "S", "C", "D"}

\* a token of exactly one suit character and one rank character, in either order
ValidToken(s) ==
    /\ Len(s) = 2
    /\ \/ Upper(s[1]) \in SuitChars /\ Upper(s[2]) \in RankChars
       \/ Upper(s[1]) \in RankChars /\ Upper(s[2]) \in SuitChars

\* C8: parse_card raises the invalid-card-format error for every token that is
\* not exactly one suit character and one rank character (either order, either
\* case), and every card it returns has a rank in 2..14.
C8_InvalidTokenRejected ==
    parsed # Pending =>
        /\ ~ValidToken(card_str) => parsed.exc = "ValueError"
        /\ parsed.exc = "none" => parsed.rank \in 2..14

\* the ranks of a hand of valid tokens, as a set
RankSet(h) == {parse_card(h[i]).rank : i \in 1..Len(h)}

\* the ranks of a hand of valid tokens, as dealt
RankList(h) == [i \in 1..Len(h) |-> parse_card(h[i]).rank]

\* every 6-high straight of the deck: one card of each rank 6, 5, 4, 3, 2
SixHighHands ==
    {[i \in 1..5 |-> <<f[i], <<"6", "5", "4", "3", "2">>[i]>>] :
        f \in [1..5 -> Elems(RankDeckSuits)]}

\* C1: the score of a wheel (A-5-4-3-2) is strictly lower than the score of
\* every 6-high straight of the same category.
C1_WheelBelowSixHigh ==
    (rank # Pending /\ RankSet(hand) = {14, 5, 4, 3, 2}) =>
        \A six \in SixHighHands :
            hand_rank(six).cat = rank.cat => TupleGT(hand_rank(six), rank)

\* the rank a hand holds exactly n times
GroupRank(h, n) == CHOOSE r \in RankSet(h) : Count(RankList(h), r) = n

\* the ranks of a hand other than g, in descending order
KickersDescending(h, g) == SelectSeq(SortedDesc(RankList(h)), LAMBDA x : x # g)

\* C2: the tiebreak of a Pair is the pair rank then the three other ranks in
\* descending order, and the tiebreak of a ThreeOfAKind is the triple rank
\* then the two other ranks in descending order.
C2_KickersDescending ==
    /\ (rank # Pending /\ rank.cat = 1) =>
            rank.tb = <<GroupRank(hand, 2)>> \o KickersDescending(hand, GroupRank(hand, 2))
    /\ (rank # Pending /\ rank.cat = 3) =>
            rank.tb = <<GroupRank(hand, 3)>> \o KickersDescending(hand, GroupRank(hand, 3))

-----------------------------------------------------------------------------
(* Claims about best_hand, EvaluateHand, CompareHands and compare_hands.   *)

\* every 5-card subset of a list of cards, each in the order of the list
FiveSubsets(cs) ==
    {Pick(cs, idx, 1) : idx \in {x \in SUBSET (1..Len(cs)) : Cardinality(x) = 5}}

\* the scores of the 5-card subsets of a list of cards
SubsetScores(cs) == {hand_rank(h) : h \in FiveSubsets(cs)}

\* the greatest of them
BestScore(cs) ==
    CHOOSE sc \in SubsetScores(cs) : \A other \in SubsetScores(cs) : ~TupleGT(other, sc)

\* C3: for 5 to 7 valid distinct cards best_hand returns a 5-card subset of its
\* input whose hand_rank score is the returned rank_tuple, and no 5-card subset
\* of the input has a greater score.
C3_BestHandIsMaximal ==
    (call = "best_hand" /\ Len(cards) >= 5) =>
        /\ result.exc = "none"
        /\ result.best_hand \in FiveSubsets(cards)
        /\ hand_rank(result.best_hand) = result.rank_tuple
        /\ \A h \in FiveSubsets(cards) : ~TupleGT(hand_rank(h), result.rank_tuple)

\* best_hand chose among 7 cards, and the tiebreak decided against a subset of
\* the category it returned
C3_TiebreakChoseBestHand ==
    /\ call = "best_hand"
    /\ Len(cards) = 7
    /\ result.exc = "none"
    /\ \E h \in FiveSubsets(cards) :
          /\ hand_rank(h).cat = result.rank_value
          /\ TupleGT(result.rank_tuple, hand_rank(h))

Pool1 == request.hand1.hole_cards \o request.hand1.community_cards
Pool2 == request.hand2.hole_cards \o request.hand2.community_cards

\* the winner the scores of two pools call for: 1, 2, or 0 when they are equal
WinnerByScore(w, s1, s2) ==
    /\ w \in {0, 1, 2}
    /\ w = 1 <=> TupleGT(s1, s2)
    /\ w = 2 <=> TupleGT(s2, s1)
    /\ w = 0 <=> s1 = s2

\* C4: for two pools of at least 5 cards the winner is 1 exactly when pool 1's
\* best score is strictly greater, 2 exactly when pool 2's is, 0 exactly when
\* the two best scores are equal; CompareHands and compare_hands give the
\* same winner when both pools share one community board.
C4_WinnerIsHigherScore ==
    /\ (call = "CompareHands" /\ Len(Pool1) >= 5 /\ Len(Pool2) >= 5) =>
            /\ response.code = "OK"
            /\ WinnerByScore(response.winner, BestScore(Pool1), BestScore(Pool2))
            /\ request.hand1.community_cards = request.hand2.community_cards =>
                    compare_hands(request.hand1.hole_cards, request.hand2.hole_cards,
                                  request.hand1.community_cards)
                        = Compared(response.winner, response.winning_hand_name)
    /\ (call = "compare_hands" /\ Len(Pool1) >= 5 /\ Len(Pool2) >= 5) =>
            /\ compared.exc = "none"
            /\ WinnerByScore(compared.winner, BestScore(Pool1), BestScore(Pool2))
            /\ CompareHandsResponse(request).winner = compared.winner

\* CompareHands named player 2 the winner of two hands of one category on a
\* shared board: the tiebreak decided
C4_TiebreakDecidedWinner ==
    /\ call = "CompareHands"
    /\ response.code = "OK"
    /\ response.winner = 2
    /\ request.hand1.community_cards = request.hand2.community_cards
    /\ BestScore(Pool1).cat = BestScore(Pool2).cat

\* C9: with a pool of fewer than 5 cards best_hand fails and returns nothing,
\* and EvaluateHand and CompareHands report invalid argument, not an internal
\* error.
C9_ShortPoolIsInvalidArgument ==
    /\ (call = "best_hand" /\ Len(cards) < 5) => result.exc # "none"
    /\ (call = "EvaluateHand"
            /\ Len(request.hole_cards \o request.community_cards) < 5) =>
            response.code = "INVALID_ARGUMENT"
    /\ (call = "CompareHands" /\ (Len(Pool1) < 5 \/ Len(Pool2) < 5)) =>
            response.code = "INVALID_ARGUMENT"

-----------------------------------------------------------------------------
(* Claims about calculate_probability and CalculateProbability.            *)

\* a fraction num / den lies in [0, 1]
InUnitInterval(f) ==
    IF f.den > 0 THEN 0 <= f.num /\ f.num <= f.den
    ELSE f.den < 0 /\ f.den <= f.num /\ f.num <= 0

\* three fractions of one denominator sum to 1
SumToOne(a, b, c) ==
    /\ a.den = b.den /\ b.den = c.den /\ a.den # 0
    /\ a.num + b.num + c.num = a.den

\* the trial loop of the call is over
LoopOver == (pc = "loop" /\ trial >= num_simulations) \/ (pc = "done" /\ prob.exc # "IndexError")

\* C5: for every trial count passed to the estimator: the counters are never
\* negative and a trial increments at most one of them, after the trial loop
\* wins + ties <= trials, and the returned fractions sum to 1 and lie in [0,1].
C5_CountsWithinTrials ==
    /\ pc # "idle" => 0 <= wins /\ 0 <= ties /\ wins + ties <= trial
    /\ LoopOver => wins + ties <= num_simulations
    /\ (pc = "done" /\ prob.exc = "none") =>
            /\ SumToOne(prob.win, prob.tie, prob.lose)
            /\ InUnitInterval(prob.win)
            /\ InUnitInterval(prob.tie)
            /\ InUnitInterval(prob.lose)

\* the caller gave no trial count, zero, or a negative one
NonPositiveTrialCount ==
    request.num_simulations = <<>> \/ request.num_simulations[1] <= 0

\* C6: when the trial count given is unspecified, zero or negative the
\* estimator runs the default 1000 trials: never zero trials, and it never
\* divides by a non-positive trial count.
C6_NonPositiveMeansDefault ==
    (pc # "idle" /\ NonPositiveTrialCount) =>
        /\ num_simulations = 1000
        /\ pc = "done" => prob.exc # "ZeroDivisionError"
        /\ (pc = "done" /\ prob.exc = "none") => prob.win.den > 0

\* the cards the player knows: hole cards and known community cards
KnownCards == {parse_card(c) : c \in Elems(my_cards) \cup Elems(community_cards)}

\* the cards the latest trial dealt from the deck
DealtCards ==
    UNION {Elems(opponents_cards[i]) : i \in 1..Len(opponents_cards)}
        \cup {sim_community[i] : i \in (Len(community_cards) + 1)..Len(sim_community)}

\* C7: for hole and community cards given as valid tokens in either ordering
\* and either case, the remaining deck is the 52-card deck minus those cards,
\* and no card dealt in a trial is one of them.
C7_DeckExcludesKnownCards ==
    pc # "idle" =>
        /\ \A i \in 1..Len(deck) : parse_card(deck[i]) \notin KnownCards
        /\ Len(deck) = 52 - Cardinality(KnownCards)
        /\ \A c \in DealtCards : parse_card(c) \notin KnownCards

\* the opponents' hands one after the other
RECURSIVE Flatten(_)
Flatten(ss) == IF ss = <<>> THEN <<>> ELSE Head(ss) \o Flatten(Tail(ss))

\* C10: for num_players >= 2 and 0 to 5 known community cards a trial deals
\* each of the num_players - 1 opponents exactly 2 cards and completes the
\* board to exactly 5, from consecutive positions of the shuffled deck, never
\* past its end.
C10_DealStaysInsideDeck ==
    (pc # "idle" /\ num_players >= 2 /\ Len(community_cards) <= 5) =>
        /\ prob.exc # "IndexError"
        /\ trial >= 1 =>
              /\ Len(opponents_cards) = num_players - 1
              /\ \A i \in 1..Len(opponents_cards) : Len(opponents_cards[i]) = 2
              /\ Len(sim_community) = 5
              /\ 2 * (num_players - 1) + 5 - Len(community_cards) <= Len(deck)
              /\ Flatten(opponents_cards)
                    \o SubSeq(sim_community, Len(community_cards) + 1, Len(sim_community))
                 = SubSeq(deck, 1, 2 * (num_players - 1) + 5 - Len(community_cards))

=============================================================================
